---- MODULE Spec2Model ----
(***************************************************************************)
(* EpicStyle: a style checker for C sources.  The repository holds two     *)
(* realisations of the same engine:                                        *)
(*   - the monolithic program   src/main.go            (package main)      *)
(*   - the packaged program     src/cmd/epicstyle, src/pkg/analyzer,       *)
(*                              src/pkg/rules          (packages main,     *)
(*                              analyzer, rules)                           *)
(* Text is modelled as a sequence of one-character strings, so that the    *)
(* rules inspect the characters the Go code inspects.                      *)
(***************************************************************************)
EXTENDS Integers, Sequences, FiniteSets, Bags, TLC

(***************************************************************************)
(* Bounds of the model.                                                    *)
(***************************************************************************)

MaxLines == 2

MaxMajors == 21

MaxMinors == 2

MaxScoreLines == 3

MaxNameLen == 3

MaxUnitLines == 4

MaxUnitFuncs == 2
\* the most functions of a file made of short functions
MaxShortFuncs == 4
\* the most lines between the braces of a function body
MaxBodyLines == 2

(***************************************************************************)
(* Program constants.                                                      *)
(***************************************************************************)
MaxLineLength == 80

MaxFunctionLines == 25

MaxFunctions == 3

MaxParams == 4

MajorPenalty == 5

MinorPenalty == 2

FullScore == 100

(***************************************************************************)
(* Characters.                                                             *)
(***************************************************************************)
TAB == "\t"

NL == "\n"

Lower == {"a","b","c","d","e","f","g","h","i","j","k","l","m",
          "n","o","p","q","r","s","t","u","v","w","x","y","z"}

Upper == {"A","B","C","D","E","F","G","H","I","J","K","L","M",
          "N","O","P","Q","R","S","T","U","V","W","X","Y","Z"}

Digit == {"0","1","2","3","4","5","6","7","8","9"}

\* unicode.IsSpace restricted to the characters of the model; also regexp \s
Space == {" ", "\t", "\n", "\r", "\f"}

\* regexp \w
Word == Lower \cup Upper \cup Digit \cup {"_"}

(***************************************************************************)
(* The functions of package strings that the program calls.                *)
(***************************************************************************)
Max(a, b) == IF a >= b THEN a ELSE b

\* s[from..] in Go, with 0-based from
Drop(s, from) == SubSeq(s, from + 1, Len(s))

\* s[:to] in Go, with 0-based exclusive to
Take(s, to) == SubSeq(s, 1, to)

HasPrefix(s, p) == Len(s) >= Len(p) /\ SubSeq(s, 1, Len(p)) = p

HasSuffix(s, p) == Len(s) >= Len(p) /\ SubSeq(s, Len(s) - Len(p) + 1, Len(s)) = p

Contains(s, sub) ==
    \E i \in 1..(Len(s) - Len(sub) + 1) : SubSeq(s, i, i + Len(sub) - 1) = sub

\* strings.Count for a one-character separator
Count(s, c) == Cardinality({i \in 1..Len(s) : s[i] = c})

\* strings.Index for a one-character separator: 0-based, -1 when absent
Index(s, c) ==
    IF \E i \in 1..Len(s) : s[i] = c
    THEN (CHOOSE i \in 1..Len(s) : s[i] = c /\ \A j \in 1..(i - 1) : s[j] # c) - 1
    ELSE -1

TrimSuffix(s, p) == IF HasSuffix(s, p) THEN SubSeq(s, 1, Len(s) - Len(p)) ELSE s

\* number of leading characters of s that belong to cls
LeadIn(s, cls) ==
    IF \E i \in 1..Len(s) : s[i] \notin cls
    THEN (CHOOSE i \in 1..Len(s) : s[i] \notin cls /\ \A j \in 1..(i - 1) : s[j] \in cls) - 1
    ELSE Len(s)

\* number of trailing characters of s that belong to cls
TrailIn(s, cls) ==
    IF \E i \in 1..Len(s) : s[i] \notin cls
    THEN Len(s) - (CHOOSE i \in 1..Len(s) : s[i] \notin cls /\ \A j \in (i + 1)..Len(s) : s[j] \in cls)
    ELSE Len(s)

TrimLeft(s, cls) == Drop(s, LeadIn(s, cls))

TrimSpace(s) ==
    IF LeadIn(s, Space) = Len(s) THEN <<>>
    ELSE SubSeq(s, LeadIn(s, Space) + 1, Len(s) - TrailIn(s, Space))

\* number of leading characters of s that do not belong to cls
LeadNotIn(s, cls) ==
    IF \E i \in 1..Len(s) : s[i] \in cls
    THEN (CHOOSE i \in 1..Len(s) : s[i] \in cls /\ \A j \in 1..(i - 1) : s[j] \notin cls) - 1
    ELSE Len(s)

\* strings.Fields: the maximal runs of non-space characters
RECURSIVE Fields(_)
Fields(s) ==
    LET t == TrimLeft(s, Space)
        n == LeadNotIn(t, Space)
    IN  IF t = <<>> THEN <<>>
        ELSE <<Take(t, n)>> \o Fields(Drop(t, n))

\* strings.Split(s, "\n")
RECURSIVE Split(_)
Split(s) ==
    LET p == Index(s, NL)
    IN  IF p < 0 THEN <<s>>
        ELSE <<Take(s, p)>> \o Split(Drop(s, p + 1))

\* len(s): the number of bytes of s in UTF-8, where é takes two bytes and every
\* other character of the model one
ByteLen(s) == Len(s) + Cardinality({i \in 1..Len(s) : s[i] = "é"})

\* strings.Repeat for a one-character string
Repeat(c, n) == [i \in 1..n |-> c]

\* append(a, b...) over a sequence of slices
RECURSIVE Flatten(_)
Flatten(ss) == IF ss = <<>> THEN <<>> ELSE Head(ss) \o Flatten(Tail(ss))

(***************************************************************************)
(* The functions of package path/filepath that the program calls.          *)
(***************************************************************************)
\* filepath.Base
Base(path) ==
    LET p == SubSeq(path, 1, Len(path) - TrailIn(path, {"/"}))
        k == TrailIn(p, {c \in {p[i] : i \in 1..Len(p)} : c # "/"})
    IN  IF path = <<>> THEN <<".">>
        ELSE IF p = <<>> THEN <<"/">>
        ELSE SubSeq(p, Len(p) - k + 1, Len(p))

\* filepath.Ext
Ext(path) ==
    LET k == TrailIn(path, {c \in {path[i] : i \in 1..Len(path)} : c \notin {"/", "."}})
    IN  IF k < Len(path) /\ path[Len(path) - k] = "."
        THEN SubSeq(path, Len(path) - k, Len(path))
        ELSE <<>>

(***************************************************************************)
(* String literals of the program.                                         *)
(***************************************************************************)
DotC == <<".", "c">>

DotH == <<".", "h">>

SlashSlash == <<"/", "/">>

SlashStar == <<"/", "*">>

SlashStarStar == <<"/", "*", "*">>

KwIf == <<"i", "f">>

KwWhile == <<"w", "h", "i", "l", "e">>

KwFor == <<"f", "o", "r">>

KwSwitch == <<"s", "w", "i", "t", "c", "h">>

KwMain == <<"m", "a", "i", "n">>

KwVoid == <<"v", "o", "i", "d">>

KwConst == <<"c", "o", "n", "s", "t">>

KwInt == <<"i", "n", "t">>

KwChar == <<"c", "h", "a", "r">>

KwFloat == <<"f", "l", "o", "a", "t">>

KwDouble == <<"d", "o", "u", "b", "l", "e">>

KwLong == <<"l", "o", "n", "g">>

KwShort == <<"s", "h", "o", "r", "t">>

KwUnsigned == <<"u", "n", "s", "i", "g", "n", "e", "d">>

Define == <<"#", "d", "e", "f", "i", "n", "e">>

FourSpaces == <<" ", " ", " ", " ">>

\* the alternation (int|char|float|double|long|short|unsigned) of the regexps
TypeKeywords == {KwInt, KwChar, KwFloat, KwDouble, KwLong, KwShort, KwUnsigned}

(***************************************************************************)
(* Violation, src/main.go and src/pkg/rules.  The description field is a   *)
(* text derived from the other fields and is left out.                     *)
(***************************************************************************)
Violation(rule, message, line, severity) ==
    [rule |-> rule, message |-> message, line |-> line, severity |-> severity]

\* the nil *FunctionInfo
NoFunc == [Name |-> <<>>, StartLine |-> 0, EndLine |-> 0, ParamCount |-> 0]

(***************************************************************************)
(* src/main.go: helper functions.                                          *)
(***************************************************************************)
isSnakeCase(s) ==
    /\ s # <<>>
    /\ \A i \in 1..Len(s) :
          /\ s[i] \notin Upper
          /\ ~(s[i] = "_" /\ (i = 1 \/ i = Len(s)))

isScreamingSnakeCase(s) ==
    /\ s # <<>>
    /\ \A i \in 1..Len(s) :
          /\ s[i] \notin Lower
          /\ ~(s[i] = "_" /\ (i = 1 \/ i = Len(s)))

\* the signature test of extractFunctions, on the 1-based line i
extractFunctions_isSignature(lines, i) ==
    LET trimmed == TrimSpace(lines[i])
    IN  /\ Contains(trimmed, <<"(">>)
        /\ Contains(trimmed, <<")">>)
        /\ \/ Contains(trimmed, <<"{">>)
           \/ (i < Len(lines) /\ Contains(TrimSpace(lines[i + 1]), <<"{">>))
        /\ ~HasPrefix(trimmed, SlashSlash)
        /\ ~HasPrefix(trimmed, SlashStar)
        /\ ~Contains(trimmed, KwIf)
        /\ ~Contains(trimmed, KwWhile)
        /\ ~Contains(trimmed, KwFor)
        /\ ~Contains(trimmed, KwSwitch)

\* the record extractFunctions builds from the signature on line i, or NoFunc
\* when one of the nested conditions fails and currentFunc is left as it was
extractFunctions_open(lines, i) ==
    LET trimmed == TrimSpace(lines[i])
        parenPos == Index(trimmed, "(")
        funcPart == Take(trimmed, parenPos)
        parts == Fields(funcPart)
        last == parts[Len(parts)]
        funcName == IF Contains(last, <<"*">>) THEN TrimLeft(last, {"*"}) ELSE last
        paramPart == Drop(trimmed, parenPos + 1)
        closeParenPos == Index(paramPart, ")")
        params == Take(paramPart, closeParenPos)
        paramCount == IF TrimSpace(params) # <<>> /\ TrimSpace(params) # KwVoid
                      THEN Count(params, ",") + 1 ELSE 0
    IN  IF parenPos > 0 /\ Len(parts) > 0 /\ closeParenPos > 0
        THEN [Name |-> funcName, StartLine |-> i, EndLine |-> 0, ParamCount |-> paramCount]
        ELSE NoFunc

\* the iteration of extractFunctions without the reset of currentFunc behind
\* the append
extractFunctions_step_keepOpen(lines, i, functions, currentFunc, braceCount) ==
    LET opened == IF extractFunctions_isSignature(lines, i)
                  THEN extractFunctions_open(lines, i) ELSE NoFunc
        cur == IF opened # NoFunc THEN opened ELSE currentFunc
        bc == braceCount + Count(lines[i], "{") - Count(lines[i], "}")
    IN  IF cur # NoFunc /\ bc = 0 /\ Contains(lines[i], <<"}">>)
        THEN [functions |-> Append(functions, [cur EXCEPT !.EndLine = i]),
              currentFunc |-> cur, braceCount |-> bc]
        ELSE [functions |-> functions, currentFunc |-> cur, braceCount |-> bc]

\* one iteration of the loop of extractFunctions, on the 1-based line i, with
\* the functions found so far, the open function and the brace count: the
\* values the three have after the iteration
extractFunctions_step(lines, i, functions, currentFunc, braceCount) ==
    LET opened == IF extractFunctions_isSignature(lines, i)
                  THEN extractFunctions_open(lines, i) ELSE NoFunc
        cur == IF opened # NoFunc THEN opened ELSE currentFunc
        bc == braceCount + Count(lines[i], "{") - Count(lines[i], "}")
    IN  IF cur # NoFunc /\ bc = 0 /\ Contains(lines[i], <<"}">>)
        THEN [functions |-> Append(functions, [cur EXCEPT !.EndLine = i]),
              currentFunc |-> NoFunc, braceCount |-> bc]
        ELSE [functions |-> functions, currentFunc |-> cur, braceCount |-> bc]

\* the loop of extractFunctions from line i on
RECURSIVE extractFunctions_loop(_, _, _, _, _)
extractFunctions_loop(lines, i, functions, currentFunc, braceCount) ==
    IF i > Len(lines) THEN functions
    ELSE LET Rest(st) == extractFunctions_loop(lines, i + 1, st.functions,
                                               st.currentFunc, st.braceCount)
         IN  Rest(extractFunctions_step(lines, i, functions, currentFunc, braceCount))

extractFunctions(lines) == extractFunctions_loop(lines, 1, <<>>, NoFunc, 0)

(***************************************************************************)
(* src/main.go: the rule checking functions.  analysis is the FileAnalysis *)
(* record [Filename, Lines, Functions].                                    *)
(***************************************************************************)
checkLineLength(analysis) ==
    LET Hit(i) == ByteLen(analysis.Lines[i]) > MaxLineLength
        Mk(i) == Violation("C-L1", "Line too long", i, "major")
    IN  Flatten([i \in 1..Len(analysis.Lines) |-> IF Hit(i) THEN <<Mk(i)>> ELSE <<>>])

checkEmptyLines(analysis) ==
    LET lines == analysis.Lines
        n == Len(lines)
        first == IF n > 0 /\ TrimSpace(lines[1]) = <<>>
                 THEN <<Violation("C-L2", "Empty line at beginning of file", 1, "minor")>>
                 ELSE <<>>
        last == IF n > 1 /\ TrimSpace(lines[n]) = <<>>
                THEN <<Violation("C-L2", "Empty line at end of file", n, "minor")>>
                ELSE <<>>
        Hit(i) == i > 1 /\ TrimSpace(lines[i]) = <<>> /\ TrimSpace(lines[i - 1]) = <<>>
        Mk(i) == Violation("C-L2", "Consecutive empty lines", i, "minor")
    IN  first \o last \o Flatten([i \in 1..n |-> IF Hit(i) THEN <<Mk(i)>> ELSE <<>>])

checkIndentation(analysis) ==
    LET Hit(i) == Len(analysis.Lines[i]) > 0 /\ analysis.Lines[i][1] = " "
        Mk(i) == Violation("C-L3", "Space indentation", i, "major")
    IN  Flatten([i \in 1..Len(analysis.Lines) |-> IF Hit(i) THEN <<Mk(i)>> ELSE <<>>])

checkVariableDeclaration(analysis) ==
    LET Hit(i) ==
            LET trimmed == TrimSpace(analysis.Lines[i])
            IN  /\ \/ Contains(trimmed, KwInt \o <<" ">>)
                   \/ Contains(trimmed, KwChar \o <<" ">>)
                   \/ Contains(trimmed, KwFloat \o <<" ">>)
                   \/ Contains(trimmed, KwDouble \o <<" ">>)
                /\ Count(trimmed, ",") > 0
                /\ ~Contains(trimmed, KwFor)
        Mk(i) == Violation("C-L4", "Multiple variable declaration", i, "major")
    IN  Flatten([i \in 1..Len(analysis.Lines) |-> IF Hit(i) THEN <<Mk(i)>> ELSE <<>>])

checkVariablePosition(analysis) == <<>>

checkFilename(analysis) ==
    LET base == Base(analysis.Filename)
        name == TrimSuffix(base, Ext(base))
    IN  IF ~isSnakeCase(name)
        THEN <<Violation("C-O1", "Invalid filename format", 0, "major")>>
        ELSE <<>>

checkFunctionCount(analysis) ==
    LET Counted(i) ==
            LET trimmed == TrimSpace(analysis.Lines[i])
            IN  /\ Contains(trimmed, <<"(">>)
                /\ Contains(trimmed, <<")">>)
                /\ Contains(trimmed, <<"{">>)
                /\ ~HasPrefix(trimmed, SlashSlash)
                /\ ~HasPrefix(trimmed, SlashStar)
                /\ ~Contains(trimmed, KwIf)
                /\ ~Contains(trimmed, KwWhile)
                /\ ~Contains(trimmed, KwFor)
                /\ ~Contains(trimmed, KwMain)
        funcCount == Cardinality({i \in 1..Len(analysis.Lines) : Counted(i)})
    IN  IF funcCount > MaxFunctions
        THEN <<Violation("C-O2", "Too many functions", 0, "major")>>
        ELSE <<>>

checkFunctionNames(analysis) ==
    LET fns == analysis.Functions
        Hit(k) == ~isSnakeCase(fns[k].Name) /\ fns[k].Name # KwMain
        Mk(k) == Violation("C-F1", "Invalid function name", fns[k].StartLine, "major")
    IN  Flatten([i \in 1..Len(fns) |-> IF Hit(i) THEN <<Mk(i)>> ELSE <<>>])

checkMacroNames(analysis) ==
    LET Hit(i) ==
            LET trimmed == TrimSpace(analysis.Lines[i])
                parts == Fields(trimmed)
            IN  /\ HasPrefix(trimmed, Define \o <<" ">>)
                /\ Len(parts) >= 2
                /\ ~isScreamingSnakeCase(parts[2])
        Mk(i) == Violation("C-F2", "Invalid macro name", i, "major")
    IN  Flatten([i \in 1..Len(analysis.Lines) |-> IF Hit(i) THEN <<Mk(i)>> ELSE <<>>])

\* checkFunctionLength with the comparison > 25 weakened to >= 25
checkFunctionLength_atLeast(analysis) ==
    LET fns == analysis.Functions
        Hit(k) == fns[k].EndLine - fns[k].StartLine + 1 >= MaxFunctionLines
        Mk(k) == Violation("C-F3", "Function too long", fns[k].StartLine, "major")
    IN  Flatten([i \in 1..Len(fns) |-> IF Hit(i) THEN <<Mk(i)>> ELSE <<>>])

checkFunctionLength(analysis) ==
    LET fns == analysis.Functions
        Hit(k) == fns[k].EndLine - fns[k].StartLine + 1 > MaxFunctionLines
        Mk(k) == Violation("C-F3", "Function too long", fns[k].StartLine, "major")
    IN  Flatten([i \in 1..Len(fns) |-> IF Hit(i) THEN <<Mk(i)>> ELSE <<>>])

checkCommentFormat(analysis) ==
    LET Hit(i) == Contains(analysis.Lines[i], SlashSlash)
        Mk(i) == Violation("C-C1", "Invalid comment format", i, "minor")
    IN  Flatten([i \in 1..Len(analysis.Lines) |-> IF Hit(i) THEN <<Mk(i)>> ELSE <<>>])

checkFunctionComment(analysis) == <<>>

checkGlobalVariables(analysis) == <<>>

checkFunctionParameters(analysis) ==
    LET fns == analysis.Functions
        Hit(k) == fns[k].ParamCount > MaxParams
        Mk(k) == Violation("C-F4", "Too many parameters", fns[k].StartLine, "major")
    IN  Flatten([i \in 1..Len(fns) |-> IF Hit(i) THEN <<Mk(i)>> ELSE <<>>])

checkForLoopDeclaration(analysis) ==
    LET Hit(i) ==
            LET trimmed == TrimSpace(analysis.Lines[i])
            IN  Contains(trimmed, KwFor) /\ Contains(trimmed, KwInt \o <<" ">>)
        Mk(i) == Violation("C-L5", "Variable declaration in for loop", i, "major")
    IN  Flatten([i \in 1..Len(analysis.Lines) |-> IF Hit(i) THEN <<Mk(i)>> ELSE <<>>])

(***************************************************************************)
(* Scores are float64 in the program.  The model computes them exactly, as *)
(* fractions in lowest terms [num, den] with den > 0.                      *)
(***************************************************************************)
RECURSIVE GCD(_, _)
GCD(a, b) == IF b = 0 THEN a ELSE GCD(b, a % b)

Abs(a) == IF a < 0 THEN -a ELSE a

Rat(n, d) ==
    LET g == GCD(Abs(n), d)
    IN  [num |-> n \div g, den |-> d \div g]

RInt(n) == [num |-> n, den |-> 1]

RAdd(a, b) == Rat(a.num * b.den + b.num * a.den, a.den * b.den)

RLess(a, b) == a.num * b.den < b.num * a.den

RLeq(a, b) == a.num * b.den <= b.num * a.den

\* a / float64(n), n > 0
RDivInt(a, n) == Rat(a.num, a.den * n)

(***************************************************************************)
(* src/main.go: the Analyzer.                                              *)
(***************************************************************************)
Rule(code, severity, level) == [Code |-> code, Severity |-> severity, Level |-> level]

\* the rule table a.rules that initRules fills, as the set of its values;
\* the key of each entry is its Code
initRules(level) ==
    { Rule("C-L1", "major", 1), Rule("C-L2", "minor", 1), Rule("C-L3", "major", 1),
      Rule("C-L4", "major", 1), Rule("C-V1", "major", 1), Rule("C-O1", "major", 1),
      Rule("C-O2", "major", 1), Rule("C-F1", "major", 1), Rule("C-F2", "major", 1),
      Rule("C-F3", "major", 1) }
    \cup
    ( IF level >= 2
      THEN { Rule("C-C1", "minor", 2), Rule("C-C2", "minor", 2), Rule("C-G1", "major", 2),
             Rule("C-F4", "major", 2), Rule("C-L5", "major", 2) }
      ELSE {} )

NewAnalyzer(level) == [level |-> level, rules |-> initRules(level)]

\* rule.Check(analysis, filename, 0): the function each table entry holds
RuleCheck(code, analysis) ==
    CASE code = "C-L1" -> checkLineLength(analysis)
      [] code = "C-L2" -> checkEmptyLines(analysis)
      [] code = "C-L3" -> checkIndentation(analysis)
      [] code = "C-L4" -> checkVariableDeclaration(analysis)
      [] code = "C-V1" -> checkVariablePosition(analysis)
      [] code = "C-O1" -> checkFilename(analysis)
      [] code = "C-O2" -> checkFunctionCount(analysis)
      [] code = "C-F1" -> checkFunctionNames(analysis)
      [] code = "C-F2" -> checkMacroNames(analysis)
      [] code = "C-F3" -> checkFunctionLength(analysis)
      [] code = "C-C1" -> checkCommentFormat(analysis)
      [] code = "C-C2" -> checkFunctionComment(analysis)
      [] code = "C-G1" -> checkGlobalVariables(analysis)
      [] code = "C-F4" -> checkFunctionParameters(analysis)
      [] code = "C-L5" -> checkForLoopDeclaration(analysis)

\* the sequences that enumerate S once each
RECURSIVE Perms(_)
Perms(S) ==
    IF S = {} THEN {<<>>}
    ELSE UNION { { <<x>> \o p : p \in Perms(S \ {x}) } : x \in S }

\* the score loop of analyzeFile: 100 less a penalty per violation, not below 0
RECURSIVE analyzeFile_penalties(_)
analyzeFile_penalties(violations) ==
    IF violations = <<>> THEN 0
    ELSE (IF Head(violations).severity = "minor" THEN MinorPenalty ELSE MajorPenalty)
         + analyzeFile_penalties(Tail(violations))

\* the score loop without its floor at 0
analyzeFile_score_unclamped(violations) ==
    RInt(FullScore - analyzeFile_penalties(violations))

analyzeFile_score(violations) ==
    LET score == FullScore - analyzeFile_penalties(violations)
    IN  IF score < 0 THEN RInt(0) ELSE RInt(score)

analyzeFile_analysis(filename, content) ==
    LET lines == Split(content)
    IN  [Filename |-> filename, Lines |-> lines, Functions |-> extractFunctions(lines)]

\* the rules of the table that run at the analyzer's level
analyzeFile_selected(a) == {r \in a.rules : r.Level <= a.level}

\* `for _, rule := range a.rules` visits the entries of a Go map, whose order
\* the language leaves unspecified: every order of the selected rules is a
\* possible run.  A rule that reports nothing adds nothing wherever it comes,
\* so the possible violation lists are the concatenations, in every order, of
\* the reports of the selected rules that report something.
analyzeFile_violations(a, filename, content) ==
    LET analysis == analyzeFile_analysis(filename, content)
        reporting == {r \in analyzeFile_selected(a) : RuleCheck(r.Code, analysis) # <<>>}
    IN  { Flatten([k \in 1..Len(order) |-> RuleCheck(order[k].Code, analysis)]) :
            order \in Perms(reporting) }

\* the FileResults analyzeFile can return for a readable file
analyzeFile(a, filename, content) ==
    { [Filename |-> Base(filename),
       Violations |-> vs,
       Score |-> analyzeFile_score(vs),
       LineCount |-> Len(Split(content))] :
         vs \in analyzeFile_violations(a, filename, content) }

(***************************************************************************)
(* src/pkg/rules: the regular expressions, matched as regexp matches them. *)
(* The character classes \s and \w are disjoint and no type keyword is a   *)
(* prefix of another, so each greedy repetition takes its whole run.       *)
(***************************************************************************)
\* ^\s*\w+\s+(\w+)\s*\(   : [ok, name, after] with after the text behind "("
matchFuncHead(line) ==
    LET r1 == TrimLeft(line, Space)
        w1 == LeadIn(r1, Word)
        r2 == Drop(r1, w1)
        s1 == LeadIn(r2, Space)
        r3 == Drop(r2, s1)
        w2 == LeadIn(r3, Word)
        r4 == TrimLeft(Drop(r3, w2), Space)
    IN  IF w1 >= 1 /\ s1 >= 1 /\ w2 >= 1 /\ HasPrefix(r4, <<"(">>)
        THEN [ok |-> TRUE, name |-> Take(r3, w2), after |-> Drop(r4, 1)]
        ELSE [ok |-> FALSE, name |-> <<>>, after |-> <<>>]

\* ^\s*\w+\s+(\w+)\s*\(([^)]*)\)   : [ok, name, params, rest]
matchFuncParams(line) ==
    LET Close(h) ==
            LET n == LeadNotIn(h.after, {")"})
            IN  IF h.ok /\ n < Len(h.after)
                THEN [ok |-> TRUE, name |-> h.name, params |-> Take(h.after, n),
                      rest |-> Drop(h.after, n + 1)]
                ELSE [ok |-> FALSE, name |-> <<>>, params |-> <<>>, rest |-> <<>>]
    IN  Close(matchFuncHead(line))

\* ^\s*\w+\s+(\w+)\s*\([^)]*\)\s*$
matchFuncLine(line) ==
    LET End(m) ==
            IF m.ok /\ LeadIn(m.rest, Space) = Len(m.rest)
            THEN [ok |-> TRUE, name |-> m.name]
            ELSE [ok |-> FALSE, name |-> <<>>]
    IN  End(matchFuncParams(line))

\* (int|char|float|double|long|short|unsigned)\s+\w+ at the start of s:
\* [ok, rest] with rest the text behind the identifier
matchTypeIdent(s) ==
    LET kws == {k \in TypeKeywords : HasPrefix(s, k)}
        k == CHOOSE k \in kws : TRUE
        r1 == Drop(s, Len(k))
        s1 == LeadIn(r1, Space)
        r2 == Drop(r1, s1)
        w == LeadIn(r2, Word)
    IN  IF kws # {} /\ s1 >= 1 /\ w >= 1
        THEN [ok |-> TRUE, rest |-> Drop(r2, w)]
        ELSE [ok |-> FALSE, rest |-> <<>>]

\* ^\s*(int|char|float|double|long|short|unsigned)\s+\w+
matchVarDecl(line) == matchTypeIdent(TrimLeft(line, Space)).ok

\* ^\s*(int|char|float|double|long|short|unsigned)\s+\w+\s*,\s*\w+
matchMultiDecl(line) ==
    LET m == matchTypeIdent(TrimLeft(line, Space))
        r1 == TrimLeft(m.rest, Space)
        r2 == TrimLeft(Drop(r1, 1), Space)
    IN  m.ok /\ HasPrefix(r1, <<",">>) /\ LeadIn(r2, Word) >= 1

\* ^\s*(int|char|float|double|long|short|unsigned)\s+\w+\s*[=;]
matchGlobalVar(line) ==
    LET m == matchTypeIdent(TrimLeft(line, Space))
        r1 == TrimLeft(m.rest, Space)
    IN  m.ok /\ (HasPrefix(r1, <<"=">>) \/ HasPrefix(r1, <<";">>))

\* ^\s*#define\s+(\w+)   : [ok, name]
matchDefine(line) ==
    LET r1 == TrimLeft(line, Space)
        r2 == Drop(r1, Len(Define))
        s1 == LeadIn(r2, Space)
        r3 == Drop(r2, s1)
        w == LeadIn(r3, Word)
    IN  IF HasPrefix(r1, Define) /\ s1 >= 1 /\ w >= 1
        THEN [ok |-> TRUE, name |-> Take(r3, w)]
        ELSE [ok |-> FALSE, name |-> <<>>]

\* for\s*\(\s*(int|char|float|double|long|short|unsigned)\s+\w+ , anywhere
matchForDecl(line) ==
    \E i \in 1..Len(line) :
        LET s == Drop(line, i - 1)
            r1 == TrimLeft(Drop(s, Len(KwFor)), Space)
            r2 == TrimLeft(Drop(r1, 1), Space)
        IN  HasPrefix(s, KwFor) /\ HasPrefix(r1, <<"(">>) /\ matchTypeIdent(r2).ok

(***************************************************************************)
(* src/pkg/rules: helper functions.                                        *)
(***************************************************************************)
rules_isSnakeCase(s) ==
    /\ s # <<>>
    /\ \A i \in 1..Len(s) : s[i] \in Lower \cup Digit \cup {"_"}
    /\ ~HasPrefix(s, <<"_">>)
    /\ ~HasSuffix(s, <<"_">>)

rules_isScreamingSnakeCase(s) ==
    /\ s # <<>>
    /\ \A i \in 1..Len(s) : s[i] \in Upper \cup Digit \cup {"_"}
    /\ ~HasPrefix(s, <<"_">>)
    /\ ~HasSuffix(s, <<"_">>)

(***************************************************************************)
(* src/pkg/rules: the Check method of each rule.  ctx is the FileContext   *)
(* record [Filename, Lines, Content, IsHeader].                            *)
(***************************************************************************)
LineLengthRule_Check(ctx) ==
    LET Hit(i) == ByteLen(ctx.Lines[i]) > MaxLineLength
        Mk(i) == Violation("C-L1", "Ligne trop longue", i, "major")
    IN  Flatten([i \in 1..Len(ctx.Lines) |-> IF Hit(i) THEN <<Mk(i)>> ELSE <<>>])

EmptyLinesRule_Check(ctx) ==
    LET lines == ctx.Lines
        n == Len(lines)
        first == IF n > 0 /\ TrimSpace(lines[1]) = <<>>
                 THEN <<Violation("C-L2", "Ligne vide en debut de fichier", 1, "major")>>
                 ELSE <<>>
        last == IF n > 0 /\ TrimSpace(lines[n]) = <<>>
                THEN <<Violation("C-L2", "Ligne vide en fin de fichier", n, "major")>>
                ELSE <<>>
        Hit(i) == i > 1 /\ TrimSpace(lines[i - 1]) = <<>> /\ TrimSpace(lines[i]) = <<>>
        Mk(i) == Violation("C-L2", "Lignes vides consecutives", i, "major")
    IN  IF n = 0 THEN <<>> ELSE first \o last \o Flatten([i \in 1..n |-> IF Hit(i) THEN <<Mk(i)>> ELSE <<>>])

IndentationRule_Check(ctx) ==
    LET Hit(i) == Contains(ctx.Lines[i], FourSpaces)
        Mk(i) == Violation("C-L3", "Utilisation d'espaces au lieu de tabulations", i, "minor")
    IN  Flatten([i \in 1..Len(ctx.Lines) |-> IF Hit(i) THEN <<Mk(i)>> ELSE <<>>])

VariableDeclarationRule_Check(ctx) ==
    LET Hit(i) == matchMultiDecl(ctx.Lines[i])
        Mk(i) == Violation("C-L4", "Plusieurs variables declarees sur une ligne", i, "major")
    IN  Flatten([i \in 1..Len(ctx.Lines) |-> IF Hit(i) THEN <<Mk(i)>> ELSE <<>>])

FilenameRule_Check(ctx) ==
    LET filename == Base(ctx.Filename)
        nameWithoutExt == TrimSuffix(filename, Ext(filename))
    IN  IF ~rules_isSnakeCase(nameWithoutExt)
        THEN <<Violation("C-O1", "Nom de fichier non conforme au snake_case", 1, "major")>>
        ELSE <<>>

FunctionNamingRule_Check(ctx) ==
    LET Hit(i) ==
            LET m == matchFuncHead(ctx.Lines[i])
            IN  m.ok /\ m.name # KwMain /\ ~rules_isSnakeCase(m.name)
        Mk(i) == Violation("C-F1", "Nom de fonction non conforme au snake_case", i, "major")
    IN  Flatten([i \in 1..Len(ctx.Lines) |-> IF Hit(i) THEN <<Mk(i)>> ELSE <<>>])

MacroNamingRule_Check(ctx) ==
    LET Hit(i) ==
            LET m == matchDefine(ctx.Lines[i])
            IN  m.ok /\ ~rules_isScreamingSnakeCase(m.name)
        Mk(i) == Violation("C-F2", "Nom de macro non conforme au SCREAMING_SNAKE_CASE", i, "major")
    IN  Flatten([i \in 1..Len(ctx.Lines) |-> IF Hit(i) THEN <<Mk(i)>> ELSE <<>>])

\* the loop of FunctionLengthRule.Check from line i on
RECURSIVE FunctionLengthRule_loop(_, _, _, _, _)
FunctionLengthRule_loop(lines, i, inFunction, funcStart, braceCount) ==
    IF i > Len(lines) THEN <<>>
    ELSE LET Step(isFunc) ==
                 LET inF == isFunc \/ inFunction
                     start == IF isFunc THEN i ELSE funcStart
                     bc0 == IF isFunc THEN 0 ELSE braceCount
                     bc == IF inF THEN bc0 + Count(lines[i], "{") - Count(lines[i], "}")
                           ELSE bc0
                     ends == inF /\ bc = 0 /\ Contains(lines[i], <<"}">>)
                     funcLength == i - start + 1
                 IN  (IF ends /\ funcLength > MaxFunctionLines
                      THEN <<Violation("C-F3", "Fonction trop longue", start, "major")>>
                      ELSE <<>>)
                     \o FunctionLengthRule_loop(lines, i + 1, inF /\ ~ends, start, bc)
         IN  Step(matchFuncLine(lines[i]).ok)

FunctionLengthRule_Check(ctx) == FunctionLengthRule_loop(ctx.Lines, 1, FALSE, 0, 0)

CommentFormatRule_Check(ctx) ==
    LET Hit(i) == Contains(ctx.Lines[i], SlashSlash)
        Mk(i) == Violation("C-C1", "Utilisation de // interdit", i, "major")
    IN  Flatten([i \in 1..Len(ctx.Lines) |-> IF Hit(i) THEN <<Mk(i)>> ELSE <<>>])

FunctionCommentRule_Check(ctx) ==
    LET Hit(i) ==
            LET m == matchFuncLine(ctx.Lines[i])
                prevLine == TrimSpace(ctx.Lines[i - 1])
                hasComment == i > 1 /\ (HasPrefix(prevLine, SlashStarStar) \/ HasPrefix(prevLine, SlashStar))
            IN  m.ok /\ m.name # KwMain /\ ~hasComment
        Mk(i) == Violation("C-C2", "Commentaire de fonction manquant", i, "major")
    IN  Flatten([i \in 1..Len(ctx.Lines) |-> IF Hit(i) THEN <<Mk(i)>> ELSE <<>>])

\* the loop of GlobalVariableRule.Check from line i on
RECURSIVE GlobalVariableRule_loop(_, _, _, _)
GlobalVariableRule_loop(lines, i, inFunction, braceLevel) ==
    IF i > Len(lines) THEN <<>>
    ELSE LET line == lines[i]
             bl == braceLevel + Count(line, "{") - Count(line, "}")
             sig == /\ Contains(line, <<"(">>)
                    /\ Contains(line, <<")">>)
                    /\ \/ Contains(line, <<"{">>)
                       \/ (i < Len(lines) /\ Contains(lines[i + 1], <<"{">>))
             inF == IF bl = 0 THEN FALSE ELSE (sig \/ inFunction)
         IN  (IF ~inF /\ bl = 0 /\ matchGlobalVar(line) /\ ~Contains(line, KwConst)
              THEN <<Violation("C-G1", "Declaration globale non const", i, "major")>>
              ELSE <<>>)
             \o GlobalVariableRule_loop(lines, i + 1, inF, bl)

GlobalVariableRule_Check(ctx) == GlobalVariableRule_loop(ctx.Lines, 1, FALSE, 0)

FunctionParametersRule_Check(ctx) ==
    LET Hit(i) ==
            LET m == matchFuncParams(ctx.Lines[i])
                params == TrimSpace(m.params)
            IN  /\ m.ok
                /\ params # <<>>
                /\ params # KwVoid
                /\ Count(params, ",") + 1 > MaxParams
        Mk(i) == Violation("C-F4", "Trop de parametres", i, "major")
    IN  Flatten([i \in 1..Len(ctx.Lines) |-> IF Hit(i) THEN <<Mk(i)>> ELSE <<>>])

LoopDeclarationRule_Check(ctx) ==
    LET Hit(i) == matchForDecl(ctx.Lines[i])
        Mk(i) == Violation("C-L5", "Declaration dans une boucle for", i, "major")
    IN  Flatten([i \in 1..Len(ctx.Lines) |-> IF Hit(i) THEN <<Mk(i)>> ELSE <<>>])

FileMaxFunctionsRule_Check(ctx) ==
    LET Counted(i) ==
            LET m == matchFuncLine(ctx.Lines[i])
            IN  m.ok /\ m.name # KwMain
        functionCount == Cardinality({i \in 1..Len(ctx.Lines) : Counted(i)})
    IN  IF functionCount > MaxFunctions
        THEN <<Violation("C-O2", "Trop de fonctions dans le fichier", 1, "major")>>
        ELSE <<>>

\* the loop of VariableDeclarationLocationRule.Check from line i on
RECURSIVE VariableDeclarationLocationRule_loop(_, _, _, _, _)
VariableDeclarationLocationRule_loop(lines, i, inFunction, braceCount, hasNonDeclStatement) ==
    IF i > Len(lines) THEN <<>>
    ELSE LET line == lines[i]
             trimmedLine == TrimSpace(line)
             bc == braceCount + Count(line, "{") - Count(line, "}")
             skipped == \/ trimmedLine = <<>>
                        \/ HasPrefix(trimmedLine, SlashStar)
                        \/ HasPrefix(trimmedLine, SlashSlash)
             isDecl == matchVarDecl(line)
             has == hasNonDeclStatement
                    \/ (~isDecl /\ trimmedLine # <<"{">> /\ trimmedLine # <<"}">>)
             ends == bc = 0 /\ Contains(line, <<"}">>)
         IN  IF matchFuncLine(line).ok
             THEN VariableDeclarationLocationRule_loop(lines, i + 1, TRUE, 0, FALSE)
             ELSE IF ~inFunction
             THEN VariableDeclarationLocationRule_loop(lines, i + 1, FALSE, braceCount,
                                                       hasNonDeclStatement)
             ELSE IF skipped
             THEN VariableDeclarationLocationRule_loop(lines, i + 1, TRUE, bc,
                                                       hasNonDeclStatement)
             ELSE (IF isDecl /\ hasNonDeclStatement
                   THEN <<Violation("C-V1", "Declaration de variable apres du code executable",
                                    i, "major")>>
                   ELSE <<>>)
                  \o VariableDeclarationLocationRule_loop(lines, i + 1, ~ends, bc, has)

VariableDeclarationLocationRule_Check(ctx) ==
    VariableDeclarationLocationRule_loop(ctx.Lines, 1, FALSE, 0, FALSE)

(***************************************************************************)
(* src/pkg/rules/rule_interface.go: the RuleSet, an ordered list of rules. *)
(* A rule is the record [Name, Level]; its Check method is RuleSet_Check.  *)
(***************************************************************************)
PkgRule(name, level) == [Name |-> name, Level |-> level]

NewRuleSet == <<>>

\* rs.rules = append(rs.rules, rule)
RuleSet_Add(rs, rule) == Append(rs, rule)

\* rule.Check(ctx), dispatched on the type of the rule
RuleSet_Check(rule, ctx) ==
    CASE rule.Name = "LineLengthRule" -> LineLengthRule_Check(ctx)
      [] rule.Name = "EmptyLinesRule" -> EmptyLinesRule_Check(ctx)
      [] rule.Name = "IndentationRule" -> IndentationRule_Check(ctx)
      [] rule.Name = "VariableDeclarationRule" -> VariableDeclarationRule_Check(ctx)
      [] rule.Name = "VariableDeclarationLocationRule" -> VariableDeclarationLocationRule_Check(ctx)
      [] rule.Name = "FilenameRule" -> FilenameRule_Check(ctx)
      [] rule.Name = "FunctionNamingRule" -> FunctionNamingRule_Check(ctx)
      [] rule.Name = "MacroNamingRule" -> MacroNamingRule_Check(ctx)
      [] rule.Name = "FunctionLengthRule" -> FunctionLengthRule_Check(ctx)
      [] rule.Name = "FileMaxFunctionsRule" -> FileMaxFunctionsRule_Check(ctx)
      [] rule.Name = "CommentFormatRule" -> CommentFormatRule_Check(ctx)
      [] rule.Name = "FunctionCommentRule" -> FunctionCommentRule_Check(ctx)
      [] rule.Name = "GlobalVariableRule" -> GlobalVariableRule_Check(ctx)
      [] rule.Name = "FunctionParametersRule" -> FunctionParametersRule_Check(ctx)
      [] rule.Name = "LoopDeclarationRule" -> LoopDeclarationRule_Check(ctx)

\* the level filter of CheckAll with its comparison turned round
RuleSet_runs_above(rule, level) == rule.Level >= level

\* whether CheckAll runs the rule at the requested level
RuleSet_runs(rule, level) == rule.Level <= level

RECURSIVE RuleSet_CheckAll(_, _, _)
RuleSet_CheckAll(rs, ctx, level) ==
    IF rs = <<>> THEN <<>>
    ELSE (IF RuleSet_runs(Head(rs), level) THEN RuleSet_Check(Head(rs), ctx) ELSE <<>>)
         \o RuleSet_CheckAll(Tail(rs), ctx, level)

(***************************************************************************)
(* src/pkg/analyzer: the Analyzer and the aggregation.                     *)
(***************************************************************************)
\* New: the rule set in registration order
New ==
    LET r01 == RuleSet_Add(NewRuleSet, PkgRule("LineLengthRule", 1))
        r02 == RuleSet_Add(r01, PkgRule("EmptyLinesRule", 1))
        r03 == RuleSet_Add(r02, PkgRule("IndentationRule", 1))
        r04 == RuleSet_Add(r03, PkgRule("VariableDeclarationRule", 1))
        r05 == RuleSet_Add(r04, PkgRule("VariableDeclarationLocationRule", 1))
        r06 == RuleSet_Add(r05, PkgRule("FilenameRule", 1))
        r07 == RuleSet_Add(r06, PkgRule("FunctionNamingRule", 1))
        r08 == RuleSet_Add(r07, PkgRule("MacroNamingRule", 1))
        r09 == RuleSet_Add(r08, PkgRule("FunctionLengthRule", 1))
        r10 == RuleSet_Add(r09, PkgRule("FileMaxFunctionsRule", 1))
        r11 == RuleSet_Add(r10, PkgRule("CommentFormatRule", 2))
        r12 == RuleSet_Add(r11, PkgRule("FunctionCommentRule", 2))
        r13 == RuleSet_Add(r12, PkgRule("GlobalVariableRule", 2))
        r14 == RuleSet_Add(r13, PkgRule("FunctionParametersRule", 2))
        r15 == RuleSet_Add(r14, PkgRule("LoopDeclarationRule", 2))
    IN  [ruleSet |-> r15]

\* ReadFile: bufio.Scanner with the default split function ScanLines.  A line
\* ends at "\n", one trailing "\r" is dropped, and a final line without "\n"
\* is returned unless it is empty.
ReadFile(content) ==
    LET parts == Split(content)
        kept == IF parts[Len(parts)] = <<>> THEN Take(parts, Len(parts) - 1) ELSE parts
    IN  [i \in 1..Len(kept) |-> TrimSuffix(kept[i], <<"\r">>)]

\* calculateScore: 100 - (violationCount / lineCount) * 100 within [0, 100]
calculateScore(lineCount, violationCount) ==
    LET score == Rat(FullScore * lineCount - FullScore * violationCount, Max(lineCount, 1))
    IN  IF lineCount = 0 THEN RInt(FullScore)
        ELSE IF RLess(score, RInt(0)) THEN RInt(0)
        ELSE IF RLess(RInt(FullScore), score) THEN RInt(FullScore)
        ELSE score

\* AnalyzeFile for a readable file
AnalyzeFile(a, filename, content, level) ==
    LET lines == ReadFile(content)
        ctx == [Filename |-> filename, Lines |-> lines, Content |-> content,
                IsHeader |-> HasSuffix(filename, DotH)]
        violations == RuleSet_CheckAll(a.ruleSet, ctx, level)
    IN  [Filename |-> filename,
         Violations |-> violations,
         Score |-> calculateScore(Len(lines), Len(violations)),
         LineCount |-> Len(lines)]

RECURSIVE SumScores(_)
SumScores(results) ==
    IF results = <<>> THEN RInt(0) ELSE RAdd(Head(results).Score, SumScores(Tail(results)))

RECURSIVE SumLines(_)
SumLines(results) ==
    IF results = <<>> THEN 0 ELSE Head(results).LineCount + SumLines(Tail(results))

RECURSIVE SumViolations(_)
SumViolations(results) ==
    IF results = <<>> THEN 0 ELSE Len(Head(results).Violations) + SumViolations(Tail(results))

\* a file taken as clean on its score
isClean_byScore(result) == result.Score = RInt(FullScore)

\* whether the aggregation counts the result as clean
isClean(result) == Len(result.Violations) = 0

CountClean(results) == Cardinality({i \in 1..Len(results) : isClean(results[i])})

\* the zero value &AnalyzeResults{} and &Report{}
EmptyReport ==
    [Files |-> <<>>, TotalScore |-> RInt(0), TotalFiles |-> 0, TotalLines |-> 0,
     TotalViolations |-> 0, CleanFiles |-> 0]

\* the aggregate with the sum of the scores left undivided
CalculateGlobalResults_sum(results) ==
    IF Len(results) = 0 THEN EmptyReport
    ELSE [Files |-> results,
          TotalScore |-> SumScores(results),
          TotalFiles |-> Len(results),
          TotalLines |-> SumLines(results),
          TotalViolations |-> SumViolations(results),
          CleanFiles |-> CountClean(results)]

\* CalculateGlobalResults; the field Violations of AnalyzeResults, whose JSON
\* name is total_violations, is TotalViolations here
CalculateGlobalResults(results) ==
    IF Len(results) = 0 THEN EmptyReport
    ELSE [Files |-> results,
          TotalScore |-> RDivInt(SumScores(results), Len(results)),
          TotalFiles |-> Len(results),
          TotalLines |-> SumLines(results),
          TotalViolations |-> SumViolations(results),
          CleanFiles |-> CountClean(results)]

\* hasViolations answering for the last result only
hasViolations_last(results) ==
    Len(results) > 0 /\ Len(results[Len(results)].Violations) > 0

\* hasViolations of src/cmd/epicstyle/main.go
hasViolations(results) == \E i \in 1..Len(results) : Len(results[i].Violations) > 0

(***************************************************************************)
(* The inputs of a run: the file system and the command line.              *)
(***************************************************************************)
\* a line longer than the limit that holds a // comment
LongLine == SlashSlash \o Repeat("x", MaxLineLength - 1)

CleanLine == <<TAB, "r", "e", "t", "u", "r", "n", " ", "(", "0", ")", ";">>

LineTexts == <<LongLine, CleanLine>>

\* every line text a file of the model can hold: the lines above, then those of
\* the sample files: a line of 81 x, the lines "int main(void)", "{" and "}",
\* and a line of 80 characters, the last of two bytes
AllTexts ==
    LineTexts \o
    << Repeat("x", MaxLineLength + 1),
       <<"i", "n", "t", " ", "m", "a", "i", "n", "(", "v", "o", "i", "d", ")">>,
       <<"{">>,
       <<"}">>,
       Repeat("x", MaxLineLength - 1) \o <<"é">> >>

\* the sample files:
\*   wide    one line of 81 x characters, ended by "\n"
\*   main    "int main(void)\n{\n\treturn (0);\n}\n"
\*   accent  one line of 80 characters, 81 bytes, without a final "\n"
SampleFiles ==
    [wide |-> [lines |-> <<Len(LineTexts) + 1>>, nl |-> TRUE],
     main |-> [lines |-> <<Len(LineTexts) + 2, Len(LineTexts) + 3, 2, Len(LineTexts) + 4>>,
               nl |-> TRUE],
     accent |-> [lines |-> <<Len(LineTexts) + 5>>, nl |-> FALSE]]

\* a file content: up to MaxLines of the lines of LineTexts, separated by "\n",
\* with or without a final "\n"; or one of the sample files
Contents ==
    {[lines |-> ls, nl |-> b] :
        ls \in UNION {[1..k -> 1..Len(LineTexts)] : k \in 0..MaxLines}, b \in BOOLEAN}
    \cup {SampleFiles.wide, SampleFiles.main, SampleFiles.accent}

RECURSIVE Join(_)
Join(ids) ==
    IF ids = <<>> THEN <<>>
    ELSE IF Len(ids) = 1 THEN AllTexts[ids[1]]
    ELSE AllTexts[ids[1]] \o <<NL>> \o Join(Tail(ids))

\* the bytes of a content
Text(c) == Join(c.lines) \o (IF c.nl THEN <<NL>> ELSE <<>>)

Dir == <<"d">>

PathBad == <<"d", "/", "B", "a", "d", "N", "a", "m", "e", ".", "h">>

PathOk == <<"d", "/", "o", "k", "_", "n", "a", "m", "e", ".", "c">>

PathOther == <<"d", "/", "n", "o", "t", "e", "s", ".", "t", "x", "t">>

PathMissing == <<"n", "o", "w", "h", "e", "r", "e">>

\* the C files the directory can hold, in the lexical order filepath.Walk
\* visits them
CFiles == <<PathBad, PathOk>>

CFileSet == {CFiles[i] : i \in 1..Len(CFiles)}

NoContent == [lines |-> <<>>, nl |-> FALSE]

\* a C file is absent, present but unreadable, or readable with a content
FileStates ==
    {[state |-> "absent", content |-> NoContent],
     [state |-> "unreadable", content |-> NoContent]}
    \cup {[state |-> "readable", content |-> c] : c \in Contents}

Targets == {<<>>, Dir, PathBad, PathOk, PathOther, PathMissing}

Levels == {1, 2}

Modes == {"text", "json", "silent"}

\* os.Stat(path) succeeds
Stat_ok(fsys, path) ==
    \/ path = Dir
    \/ path = PathOther
    \/ (path \in CFileSet /\ fsys[path].state # "absent")

\* the paths filepath.Walk(Dir) passes to its callback, in lexical order
WalkEntries(fsys) ==
    LET all == <<PathBad, PathOther, PathOk>>
        Present(p) == Stat_ok(fsys, p)
    IN  SelectSeq(all, Present)

(***************************************************************************)
(* The files given to the extractor and to the rules one at a time.  A     *)
(* unit is a record [name, funcs, lines]: the base name of the file        *)
(* without its extension, the lengths of the functions it is made of when  *)
(* it is made of whole functions, and its lines.                           *)
(***************************************************************************)
\* the names the naming tests are given: every string of up to MaxNameLen
\* characters among a lowercase letter, an uppercase letter, a digit, the
\* underscore and the hyphen; "main"; "maxSize"
Names ==
    UNION {[1..k -> {"a", "A", "1", "_", "-"}] : k \in 0..MaxNameLen}
    \cup {KwMain, <<"m", "a", "x", "S", "i", "z", "e">>}

\* the lines the extractor is given: a signature, the braces, a statement and
\* a signature with its opening brace
ExtractTexts ==
    << <<"i", "n", "t", " ", "f", "(", "v", "o", "i", "d", ")">>,
       <<"{">>,
       <<"}">>,
       CleanLine,
       <<"i", "n", "t", " ", "g", "(", "i", "n", "t", " ", "a", ")", " ", "{">> >>

\* a function of n lines, n >= 3: signature, "{", n - 3 statements, "}"
FuncOf(n) ==
    <<ExtractTexts[1], <<"{">>>> \o [k \in 1..(n - 3) |-> CleanLine] \o << <<"}">> >>

\* the file of a macro and a function of name s:
\* "#define s 100", "int s(void)", "{", "}"
NameLines(s) ==
    << Define \o <<" ">> \o s \o <<" ", "1", "0", "0">>,
       KwInt \o <<" ">> \o s \o <<"(">> \o KwVoid \o <<")">>,
       <<"{">>,
       <<"}">> >>

\* the texts between the parentheses of a signature: nothing, void, one
\* parameter, two parameters
ParamTexts ==
    << <<>>, KwVoid, <<"i", "n", "t", " ", "a">>, <<"i", "n", "t", " ", "a", ",", " ", "i", "n", "t", " ", "b">> >>

\* the file of a function f whose parameter list is p: "int f(p) {", "}"
ParamLines(p) ==
    << <<"i", "n", "t", " ", "f", "(">> \o p \o <<")", " ", "{">>, <<"}">> >>

\* the short functions a file is made of: f with its brace on the next line,
\* g with its brace on the line of the signature, main
ShortFuncs ==
    << <<ExtractTexts[1], <<"{">>, <<"}">>>>,
       <<ExtractTexts[5], <<"}">>>>,
       <<<<"i", "n", "t", " ", "m", "a", "i", "n", "(", "v", "o", "i", "d", ")">>, <<"{">>, <<"}">>>> >>

\* the lines the empty lines rule is given: an empty line, a line of white
\* space, a statement
BlankTexts ==
    << <<>>, <<" ", TAB>>, CleanLine >>

\* what stands above a signature: nothing, a comment of one line, the comment
\* of three lines of the clean example, a blank line
CommentHeads ==
    << <<>>,
       << <<"/", "*", " ", "f", " ", "*", "/">> >>,
       << SlashStar, <<"*", "*", " ", "f">>, <<"*", "/">> >>,
       << <<>> >> >>

\* the lines of a function body: a declaration, a statement, a blank line, a
\* comment
BodyTexts ==
    << <<TAB>> \o <<"i", "n", "t", " ", "a", ";">>, CleanLine, <<>>, <<TAB>> \o <<"/", "*", " ", "c", " ", "*", "/">> >>

\* the bodies, as the numbers of their lines in BodyTexts
Bodies == UNION {[1..k -> 1..Len(BodyTexts)] : k \in 0..MaxBodyLines}

\* the function f of body b: "int f(void)", "{", the lines of b, "}"
BodyFunc(b) ==
    <<ExtractTexts[1], <<"{">>>> \o [k \in 1..Len(b) |-> BodyTexts[b[k]]] \o << <<"}">> >>

\* the declarations a file holds outside its function: an assignment, a
\* declaration, a const declaration
GlobalTexts ==
    << <<"i", "n", "t", " ", "g", " ", "=", " ", "0", ";">>, <<"c", "h", "a", "r", " ", "h", ";">>, <<"c", "o", "n", "s", "t", " ", "i", "n", "t", " ", "k", " ", "=", " ", "1", ";">> >>

\* the file of a function with a declaration in its body, the k-th function
\* of GlobalFuncs, under the global pre and above the global post, 0 standing
\* for no global
GlobalFuncs ==
    << BodyFunc(<<1>>), <<ExtractTexts[5], BodyTexts[1], <<"}">>>> >>

GlobalLines(pre, k, post) ==
    (IF pre = 0 THEN <<>> ELSE <<GlobalTexts[pre]>>)
    \o GlobalFuncs[k]
    \o (IF post = 0 THEN <<>> ELSE <<GlobalTexts[post]>>)

\* the units: lines of the extractor, whole functions of 25 to 27 lines, a
\* macro and a function of each name, a function of each parameter list,
\* lines blank or not, a function under each comment head, one or two
\* functions of each body, a function between globals, short functions
Units ==
    {[name |-> <<"o", "k">>, funcs |-> <<>>, lines |-> [k \in 1..Len(ids) |-> ExtractTexts[ids[k]]]] :
        ids \in UNION {[1..k -> 1..Len(ExtractTexts)] : k \in 0..MaxUnitLines}}
    \cup
    {[name |-> <<"o", "k">>, funcs |-> ns, lines |-> Flatten([k \in 1..Len(ns) |-> FuncOf(ns[k])])] :
        ns \in UNION {[1..k -> MaxFunctionLines..(MaxFunctionLines + 2)] : k \in 1..MaxUnitFuncs}}
    \cup
    {[name |-> s, funcs |-> <<>>, lines |-> NameLines(s)] : s \in Names}
    \cup
    {[name |-> <<"o", "k">>, funcs |-> <<>>, lines |-> ParamLines(ParamTexts[k])] :
        k \in 1..Len(ParamTexts)}
    \cup
    {[name |-> <<"o", "k">>, funcs |-> <<>>, lines |-> [k \in 1..Len(ids) |-> BlankTexts[ids[k]]]] :
        ids \in UNION {[1..k -> 1..Len(BlankTexts)] : k \in 0..MaxUnitLines}}
    \cup
    {[name |-> <<"o", "k">>, funcs |-> <<>>, lines |-> CommentHeads[h] \o ShortFuncs[j]] :
        h \in 1..Len(CommentHeads), j \in 1..Len(ShortFuncs)}
    \cup
    {[name |-> <<"o", "k">>, funcs |-> <<>>, lines |-> BodyFunc(b)] : b \in Bodies}
    \cup
    {[name |-> <<"o", "k">>, funcs |-> <<>>, lines |-> BodyFunc(b1) \o BodyFunc(b2)] :
        b1 \in Bodies, b2 \in Bodies}
    \cup
    {[name |-> <<"o", "k">>, funcs |-> <<>>, lines |-> GlobalLines(pre, k, post)] :
        pre \in 0..Len(GlobalTexts), k \in 1..Len(GlobalFuncs), post \in 0..Len(GlobalTexts)}
    \cup
    {[name |-> <<"o", "k">>, funcs |-> <<>>, lines |-> Flatten([k \in 1..Len(ids) |-> ShortFuncs[ids[k]]])] :
        ids \in UNION {[1..k -> 1..Len(ShortFuncs)] : k \in 1..MaxShortFuncs}}

\* the values of unit, ex and checks before a unit is taken: no file, the
\* locals of extractFunctions at its first line, no verdict
Idle ==
    [unit |-> [name |-> <<>>, funcs |-> <<>>, lines |-> <<>>],
     ex |-> [i |-> 1, functions |-> <<>>, currentFunc |-> NoFunc, braceCount |-> 0],
     checks |-> [done |-> FALSE]]

\* the naming tests on the name of the unit and the reports of the filename,
\* function count, empty lines, function comment, declaration placement,
\* global variable, function naming, macro naming and function length rules
\* of both analyzers on its lines; functions is the result of extractFunctions
UnitChecks(u, functions) ==
    LET analysis == [Filename |-> Dir \o <<"/">> \o u.name \o DotC, Lines |-> u.lines,
                     Functions |-> functions]
        ctx == [Filename |-> Dir \o <<"/">> \o u.name \o DotC, Lines |-> u.lines,
                Content |-> Flatten([k \in 1..Len(u.lines) |-> u.lines[k] \o <<NL>>]),
                IsHeader |-> FALSE]
    IN  [done |-> TRUE,
         snake |-> [main |-> isSnakeCase(u.name), pkg |-> rules_isSnakeCase(u.name)],
         screaming |-> [main |-> isScreamingSnakeCase(u.name),
                        pkg |-> rules_isScreamingSnakeCase(u.name)],
         main |-> [O1 |-> checkFilename(analysis),
                   O2 |-> checkFunctionCount(analysis),
                   L2 |-> checkEmptyLines(analysis),
                   C2 |-> checkFunctionComment(analysis),
                   V1 |-> checkVariablePosition(analysis),
                   G1 |-> checkGlobalVariables(analysis),
                   F1 |-> checkFunctionNames(analysis),
                   F2 |-> checkMacroNames(analysis),
                   F3 |-> checkFunctionLength(analysis)],
         pkg |-> [O1 |-> FilenameRule_Check(ctx),
                  O2 |-> FileMaxFunctionsRule_Check(ctx),
                  L2 |-> EmptyLinesRule_Check(ctx),
                  C2 |-> FunctionCommentRule_Check(ctx),
                  V1 |-> VariableDeclarationLocationRule_Check(ctx),
                  G1 |-> GlobalVariableRule_Check(ctx),
                  F1 |-> FunctionNamingRule_Check(ctx),
                  F2 |-> MacroNamingRule_Check(ctx),
                  F3 |-> FunctionLengthRule_Check(ctx)]]

(***************************************************************************)
(* The results of the two analyzers on every file of the model, computed   *)
(* once.                                                                   *)
(***************************************************************************)
analyzeFileTable ==
    [l \in Levels |-> [p \in CFileSet |-> [c \in Contents |->
        analyzeFile(NewAnalyzer(l), p, Text(c))]]]

AnalyzeFileTable ==
    [l \in Levels |-> [p \in CFileSet |-> [c \in Contents |->
        AnalyzeFile(New, p, Text(c), l)]]]

(***************************************************************************)
(* The state of a run of either program.                                   *)
(***************************************************************************)
VARIABLES
    impl,       \* "main": src/main.go, "cmd": src/cmd/epicstyle/main.go
    optLevel,      \* the -level flag
    fs,         \* the C files of the directory
    target,     \* the path argument
    mode,       \* the output mode the flags select
    pc,         \* where the run stands
    files,      \* the paths collected for analysis
    idx,        \* the next element of files to analyze
    cmdResults,    \* cmd: the FileResults returned so far
    report,     \* main: the Report; cmd: the AnalyzeResults the reporter builds
    err,        \* whether the analysis returned an error
    exitCode,   \* the exit code of the process, -1 while it runs
    vlist,      \* a violation list whose score is computed
    nlines,     \* the line count that goes with vlist
    scores,      \* the scores of vlist: main (analyzeFile), pkg (calculateScore)
    unit,       \* a file given to the extractor and to the rules: name, lines
    ex,         \* the loop of extractFunctions on unit: next line and locals
    checks      \* the verdicts of the naming tests and the reports of the rules on unit

vars == <<impl, optLevel, fs, target, mode, pc, files, idx, cmdResults, report, err,
          exitCode, vlist, nlines, scores, unit, ex, checks>>

runVars == <<impl, optLevel, fs, target, mode, pc, files, idx, cmdResults, report, err, exitCode>>

scoreVars == <<vlist, nlines, scores>>

unitVars == <<unit, ex, checks>>

ScoresOf(vs, n) == [main |-> analyzeFile_score(vs), pkg |-> calculateScore(n, Len(vs))]

\* a run of one of the two programs on a file system
RunInit ==
    /\ impl \in {"main", "cmd"}
    /\ optLevel \in Levels
    /\ fs \in [CFileSet -> FileStates]
    /\ target = <<>>
    /\ mode = "text"
    /\ pc = "start"
    /\ files = <<>>
    /\ idx = 1
    /\ cmdResults = <<>>
    /\ report = EmptyReport
    /\ err = FALSE
    /\ exitCode = -1
    /\ vlist = <<>>
    /\ nlines = 0
    /\ scores = ScoresOf(<<>>, 0)
    /\ unit = Idle.unit
    /\ ex = Idle.ex
    /\ checks = Idle.checks

\* the two score computations on a violation list that grows
ScoreInit ==
    /\ impl = "main"
    /\ optLevel = 1
    /\ fs = [p \in CFileSet |-> [state |-> "absent", content |-> NoContent]]
    /\ target = <<>>
    /\ mode = "text"
    /\ pc = "score"
    /\ files = <<>>
    /\ idx = 1
    /\ cmdResults = <<>>
    /\ report = EmptyReport
    /\ err = FALSE
    /\ exitCode = -1
    /\ vlist = <<>>
    /\ nlines \in 0..MaxScoreLines
    /\ scores = ScoresOf(<<>>, nlines)
    /\ unit = Idle.unit
    /\ ex = Idle.ex
    /\ checks = Idle.checks

\* the extractor and the rules of both analyzers on one file
UnitInit ==
    /\ impl = "main"
    /\ optLevel = 1
    /\ fs = [p \in CFileSet |-> [state |-> "absent", content |-> NoContent]]
    /\ target = <<>>
    /\ mode = "text"
    /\ pc = "extract"
    /\ files = <<>>
    /\ idx = 1
    /\ cmdResults = <<>>
    /\ report = EmptyReport
    /\ err = FALSE
    /\ exitCode = -1
    /\ vlist = <<>>
    /\ nlines = 0
    /\ scores = ScoresOf(<<>>, 0)
    /\ unit \in Units
    /\ ex = Idle.ex
    /\ checks = Idle.checks

Init == RunInit \/ ScoreInit \/ UnitInit

\* os.Exit(code), or the return of main with code 0
Exit(code) == pc' = "exited" /\ exitCode' = code

isCFile(path) == HasSuffix(path, DotC) \/ HasSuffix(path, DotH)

hasCExt(path) == Ext(path) = DotC \/ Ext(path) = DotH

(***************************************************************************)
(* src/main.go: main and AnalyzePath.                                      *)
(***************************************************************************)
\* main, up to the call of AnalyzePath: the path comes from the command line
main_parse ==
    /\ impl = "main" /\ pc = "start"
    /\ \E t \in Targets :
          /\ target' = t
          /\ IF t = <<>>
             THEN Exit(1)
             ELSE pc' = "resolve" /\ exitCode' = exitCode
    /\ UNCHANGED <<impl, optLevel, fs, mode, files, idx, cmdResults, report, err, scoreVars, unitVars>>

\* AnalyzePath, up to its loop: stat the path and collect the files
AnalyzePath_collect ==
    /\ impl = "main" /\ pc = "resolve"
    /\ IF ~Stat_ok(fs, target)
       THEN /\ err' = TRUE
            /\ Exit(1)
            /\ UNCHANGED <<files, report>>
       ELSE /\ files' = IF target = Dir THEN SelectSeq(WalkEntries(fs), isCFile)
                        ELSE IF isCFile(target) THEN <<target>>
                        ELSE <<>>
            /\ report' = EmptyReport
            /\ pc' = "loop"
            /\ UNCHANGED <<err, exitCode>>
    /\ UNCHANGED <<impl, optLevel, fs, target, mode, idx, cmdResults, scoreVars, unitVars>>

\* one iteration of the loop of AnalyzePath
AnalyzePath_file ==
    /\ impl = "main" /\ pc = "loop" /\ idx <= Len(files)
    /\ LET file == files[idx]
       IN  IF fs[file].state # "readable"
           THEN UNCHANGED report
           ELSE \E result \in analyzeFileTable[optLevel][file][fs[file].content] :
                  report' = [report EXCEPT
                      !.Files = Append(@, result),
                      !.TotalFiles = @ + 1,
                      !.TotalLines = @ + result.LineCount,
                      !.TotalViolations = @ + Len(result.Violations),
                      !.CleanFiles = IF Len(result.Violations) = 0 THEN @ + 1 ELSE @]
    /\ idx' = idx + 1
    /\ UNCHANGED <<impl, optLevel, fs, target, mode, pc, files, cmdResults, err, exitCode, scoreVars, unitVars>>

\* the end of AnalyzePath: the total score
AnalyzePath_return ==
    /\ impl = "main" /\ pc = "loop" /\ idx > Len(files)
    /\ report' = IF report.TotalFiles > 0
                 THEN [report EXCEPT !.TotalScore =
                          RDivInt(SumScores(report.Files), report.TotalFiles)]
                 ELSE report
    /\ pc' = "report"
    /\ UNCHANGED <<impl, optLevel, fs, target, mode, files, idx, cmdResults, err, exitCode, scoreVars, unitVars>>

\* the orders sort.Slice can leave the files in: by decreasing score
printReport_sorted(fileResults) ==
    { [k \in 1..Len(fileResults) |-> fileResults[p[k]]] :
        p \in { q \in Perms(1..Len(fileResults)) :
                  \A k \in 1..(Len(q) - 1) :
                      ~RLess(fileResults[q[k]].Score, fileResults[q[k + 1]].Score) } }

\* main, after AnalyzePath: the output and the exit code
main_report ==
    /\ impl = "main" /\ pc = "report"
    /\ \E m \in Modes :
          /\ mode' = m
          /\ IF m = "text"
             THEN \E sorted \in printReport_sorted(report.Files) :
                     report' = [report EXCEPT !.Files = sorted]
             ELSE UNCHANGED report
    /\ Exit(IF report.TotalViolations > 0 THEN 1 ELSE 0)
    /\ UNCHANGED <<impl, optLevel, fs, target, files, idx, cmdResults, err, scoreVars, unitVars>>

(***************************************************************************)
(* src/cmd/epicstyle/main.go: main and analyzeTarget; Generate of package  *)
(* reporter.                                                               *)
(***************************************************************************)
cmd_parse ==
    /\ impl = "cmd" /\ pc = "start"
    /\ \E t \in Targets :
          /\ target' = t
          /\ IF t = <<>>
             THEN Exit(1)
             ELSE pc' = "resolve" /\ exitCode' = exitCode
    /\ UNCHANGED <<impl, optLevel, fs, mode, files, idx, cmdResults, report, err, scoreVars, unitVars>>

\* analyzeTarget, up to its loop
analyzeTarget_collect ==
    /\ impl = "cmd" /\ pc = "resolve"
    /\ IF ~Stat_ok(fs, target) \/ (target # Dir /\ ~hasCExt(target))
       THEN /\ err' = TRUE
            /\ Exit(1)
            /\ UNCHANGED files
       ELSE /\ files' = IF target = Dir THEN SelectSeq(WalkEntries(fs), hasCExt)
                        ELSE <<target>>
            /\ pc' = "loop"
            /\ UNCHANGED <<err, exitCode>>
    /\ UNCHANGED <<impl, optLevel, fs, target, mode, idx, cmdResults, report, scoreVars, unitVars>>

\* one iteration of the loop of analyzeTarget; an error of AnalyzeFile ends
\* analyzeTarget, and main exits with 1
analyzeTarget_file ==
    /\ impl = "cmd" /\ pc = "loop" /\ idx <= Len(files)
    /\ LET file == files[idx]
       IN  IF fs[file].state # "readable"
           THEN /\ err' = TRUE
                /\ cmdResults' = <<>>
                /\ Exit(1)
                /\ UNCHANGED idx
           ELSE /\ cmdResults' = Append(cmdResults, AnalyzeFileTable[optLevel][file][fs[file].content])
                /\ idx' = idx + 1
                /\ UNCHANGED <<err, pc, exitCode>>
    /\ UNCHANGED <<impl, optLevel, fs, target, mode, files, report, scoreVars, unitVars>>

analyzeTarget_return ==
    /\ impl = "cmd" /\ pc = "loop" /\ idx > Len(files)
    /\ pc' = "report"
    /\ UNCHANGED <<impl, optLevel, fs, target, mode, files, idx, cmdResults, report, err,
                   exitCode, scoreVars, unitVars>>

\* Reporter.Generate: nothing when silent, else the aggregate is built and printed
Generate(m, fileResults) ==
    IF m = "silent" THEN EmptyReport ELSE CalculateGlobalResults(fileResults)

\* main, after analyzeTarget: the report and the exit code
cmd_report ==
    /\ impl = "cmd" /\ pc = "report"
    /\ \E m \in Modes :
          /\ mode' = m
          /\ report' = Generate(m, cmdResults)
    /\ Exit(IF hasViolations(cmdResults) THEN 1 ELSE 0)
    /\ UNCHANGED <<impl, optLevel, fs, target, files, idx, cmdResults, err, scoreVars, unitVars>>

(***************************************************************************)
(* The score of a violation list: the loop of analyzeFile (src/main.go) and *)
(* calculateScore (src/pkg/analyzer), applied as the list gains a          *)
(* violation.                                                              *)
(***************************************************************************)
MajorViolation == Violation("C-L1", "Line too long", 1, "major")

MinorViolation == Violation("C-L2", "Empty line at beginning of file", 1, "minor")

CountSeverity(vs, sev) == Cardinality({i \in 1..Len(vs) : vs[i].severity = sev})

score_addMajor ==
    /\ pc = "score"
    /\ CountSeverity(vlist, "major") < MaxMajors
    /\ vlist' = Append(vlist, MajorViolation)
    /\ scores' = ScoresOf(vlist', nlines)
    /\ UNCHANGED <<runVars, nlines, unitVars>>

score_addMinor ==
    /\ pc = "score"
    /\ CountSeverity(vlist, "minor") < MaxMinors
    /\ vlist' = Append(vlist, MinorViolation)
    /\ scores' = ScoresOf(vlist', nlines)
    /\ UNCHANGED <<runVars, nlines, unitVars>>

(***************************************************************************)
(* src/main.go: extractFunctions, one line at a time, then the rules.  The  *)
(* rules of src/pkg/rules are given the same lines.                        *)
(***************************************************************************)
\* one iteration of the loop of extractFunctions
extractFunctions_line ==
    /\ pc = "extract" /\ ex.i <= Len(unit.lines)
    /\ LET Set(st) ==
               ex' = [i |-> ex.i + 1, functions |-> st.functions,
                      currentFunc |-> st.currentFunc, braceCount |-> st.braceCount]
       IN  Set(extractFunctions_step(unit.lines, ex.i, ex.functions, ex.currentFunc,
                                     ex.braceCount))
    /\ UNCHANGED <<runVars, scoreVars, unit, checks>>

\* extractFunctions returns its functions and the rules run
analyzeFile_rules ==
    /\ pc = "extract" /\ ex.i > Len(unit.lines)
    /\ checks' = UnitChecks(unit, ex.functions)
    /\ pc' = "checked"
    /\ UNCHANGED <<impl, optLevel, fs, target, mode, files, idx, cmdResults, report, err,
                   exitCode, scoreVars, unit, ex>>

Next ==
    \/ extractFunctions_line
    \/ analyzeFile_rules
    \/ main_parse
    \/ AnalyzePath_collect
    \/ AnalyzePath_file
    \/ AnalyzePath_return
    \/ main_report
    \/ cmd_parse
    \/ analyzeTarget_collect
    \/ analyzeTarget_file
    \/ analyzeTarget_return
    \/ cmd_report
    \/ score_addMajor
    \/ score_addMinor

Spec == Init /\ [][Next]_vars

(***************************************************************************)
(* Verification.                                                           *)
(***************************************************************************)
\* the FileResults the run holds: the Report's files (main), the results of
\* analyzeTarget (cmd)
AllResults == IF impl = "main" THEN report.Files ELSE cmdResults

\* the loop has run and the report has not been printed: the i-th FileResult
\* is the result of the i-th readable file among those already visited
Analyzing == pc \in {"loop", "report"}

isReadable(p) == fs[p].state = "readable"

AnalyzedPaths == SelectSeq(SubSeq(files, 1, idx - 1), isReadable)

\* the FileResults an analysis of file p at level l can return
ResultsAt(l, p) ==
    IF impl = "main"
    THEN analyzeFileTable[l][p][fs[p].content]
    ELSE {AnalyzeFileTable[l][p][fs[p].content]}

RECURSIVE SeqSum(_)
SeqSum(s) == IF s = <<>> THEN 0 ELSE Head(s) + SeqSum(Tail(s))

RECURSIVE RSeqSum(_)
RSeqSum(s) == IF s = <<>> THEN RInt(0) ELSE RAdd(Head(s), RSeqSum(Tail(s)))

InRange(s) == RLeq(RInt(0), s) /\ RLeq(s, RInt(100))

\* C1: the score of every FileResult, and of every violation list, lies
\* between 0 and 100, for the score loop of analyzeFile and for calculateScore
C1_ScoreBounds ==
    /\ InRange(scores.main)
    /\ InRange(scores.pkg)
    /\ \A i \in 1..Len(report.Files) : InRange(report.Files[i].Score)
    /\ \A i \in 1..Len(cmdResults) : InRange(cmdResults[i].Score)

\* the penalties exceed 100 and the score is held at 0
C1_Witness ==
    /\ pc = "score"
    /\ 5 * CountSeverity(vlist, "major") + 2 * CountSeverity(vlist, "minor") > 100
    /\ scores.main = RInt(0)
    /\ scores.pkg = RInt(0)

PenaltyScore(vs) ==
    RInt(Max(0, 100 - 5 * CountSeverity(vs, "major") - 2 * CountSeverity(vs, "minor")))

\* C2: the score of a file is max(0, 100 - 5*M - 2*m) for its M major and
\* m minor violations, whatever its line count, in both analyzers
C2_ScoreFormula ==
    /\ scores.main = PenaltyScore(vlist)
    /\ scores.pkg = PenaltyScore(vlist)
    /\ \A i \in 1..Len(report.Files) :
          report.Files[i].Score = PenaltyScore(report.Files[i].Violations)
    /\ \A i \in 1..Len(cmdResults) :
          cmdResults[i].Score = PenaltyScore(cmdResults[i].Violations)

LessFive(s) == IF RLeq(RInt(5), s) THEN RAdd(s, RInt(-5)) ELSE RInt(0)

\* C3: when the violation list gains one major violation and nothing else
\* changes, the score drops by exactly 5, or is 0 if it was below 5, in both
\* analyzers
C3_Monotone ==
    [][ vlist' = Append(vlist, MajorViolation) =>
          /\ scores'.main = LessFive(scores.main)
          /\ scores'.pkg = LessFive(scores.pkg) ]_vars

\* C4: analyzing the same unchanged file again at the same level returns the
\* FileResult already obtained: same violations in the same order, same score,
\* same line count
C4_Idempotent ==
    Analyzing =>
        \A i \in 1..Len(AllResults) :
            \A again \in ResultsAt(optLevel, AnalyzedPaths[i]) : again = AllResults[i]

\* the codes of the rule table in the order initRules registers them
initRules_order ==
    <<"C-L1", "C-L2", "C-L3", "C-L4", "C-V1", "C-O1", "C-O2", "C-F1", "C-F2", "C-F3",
      "C-C1", "C-C2", "C-G1", "C-F4", "C-L5">>

\* the concatenation, in registration order, of the reports of the registered
\* rules whose level is at most l, for the file p
InRegistrationOrder(l, p) ==
    IF impl = "main"
    THEN LET a == NewAnalyzer(l)
             analysis == analyzeFile_analysis(p, Text(fs[p].content))
             Runs(code) == \E r \in a.rules : r.Code = code /\ r.Level <= l
         IN  Flatten([k \in 1..Len(initRules_order) |->
                 IF Runs(initRules_order[k])
                 THEN RuleCheck(initRules_order[k], analysis) ELSE <<>>])
    ELSE LET rs == New.ruleSet
             lines == ReadFile(Text(fs[p].content))
             ctx == [Filename |-> p, Lines |-> lines, Content |-> Text(fs[p].content),
                     IsHeader |-> HasSuffix(p, DotH)]
         IN  Flatten([k \in 1..Len(rs) |->
                 IF rs[k].Level <= l THEN RuleSet_Check(rs[k], ctx) ELSE <<>>])

\* C5: the violations of a file are the concatenation, in rule-registration
\* order, of the reports of every registered rule whose level is at most the
\* requested level
C5_RegistrationOrder ==
    Analyzing =>
        \A i \in 1..Len(AllResults) :
            AllResults[i].Violations = InRegistrationOrder(optLevel, AnalyzedPaths[i])

Occurrences(s, x) == Cardinality({i \in 1..Len(s) : s[i] = x})

\* every violation occurs in v2 at least as many times as in v1
Within(v1, v2) == \A i \in 1..Len(v1) : Occurrences(v1, v1[i]) <= Occurrences(v2, v1[i])

\* C6: for any file, the violations reported at level 1 are, as a multiset,
\* among those reported at level 2, so level 2 never reports fewer
C6_Level2Superset ==
    Analyzing =>
        \A i \in 1..Len(AllResults) :
            /\ optLevel = 1 =>
                  \A r2 \in ResultsAt(2, AnalyzedPaths[i]) :
                      Within(AllResults[i].Violations, r2.Violations)
            /\ optLevel = 2 =>
                  \A r1 \in ResultsAt(1, AnalyzedPaths[i]) :
                      Within(r1.Violations, AllResults[i].Violations)

\* a file analyzed at level 2 with more violations than level 1 reports
C6_Witness ==
    /\ Analyzing
    /\ optLevel = 2
    /\ \E i \in 1..Len(AllResults) :
          \E r1 \in ResultsAt(1, AnalyzedPaths[i]) :
              /\ Len(r1.Violations) > 0
              /\ Len(r1.Violations) < Len(AllResults[i].Violations)

\* C7: clean_files is the number of FileResults of the report that have no
\* violation
C7_CleanFiles ==
    report.CleanFiles =
        Cardinality({i \in 1..Len(report.Files) : Len(report.Files[i].Violations) = 0})

\* the aggregate of CalculateGlobalResults over a clean file and a file with
\* violations
C7_Witness ==
    /\ impl = "cmd"
    /\ pc = "exited"
    /\ Len(report.Files) = 2
    /\ report.CleanFiles = 1

\* the run has produced its aggregate
ReportFinal ==
    \/ (impl = "main" /\ pc \in {"report", "exited"} /\ ~err /\ target # <<>>)
    \/ (impl = "cmd" /\ pc = "exited" /\ ~err /\ target # <<>> /\ mode # "silent")

\* C8: total_files, total_lines and total_violations are the count and the sums
\* over the FileResults, total_score is the mean of their scores, all are 0 for
\* no FileResult; scores 100 and 80 give 90 with one clean file of two
C8_Totals ==
    /\ ReportFinal =>
          LET fr == report.Files
              n == Len(fr)
              sum == RSeqSum([i \in 1..n |-> fr[i].Score])
          IN  /\ impl = "cmd" => fr = cmdResults
              /\ impl = "main" => n = Cardinality({i \in 1..Len(files) : isReadable(files[i])})
              /\ report.TotalFiles = n
              /\ report.TotalLines = SeqSum([i \in 1..n |-> fr[i].LineCount])
              /\ report.TotalViolations = SeqSum([i \in 1..n |-> Len(fr[i].Violations)])
              /\ report.TotalScore.num * n * sum.den = sum.num * report.TotalScore.den
              /\ n = 0 => report.TotalScore = RInt(0)
    /\ LET clean == [Filename |-> PathOk, Violations |-> <<>>, Score |-> RInt(100),
                     LineCount |-> 4]
           dirty == [Filename |-> PathBad,
                     Violations |-> <<MajorViolation, MajorViolation, MajorViolation,
                                      MajorViolation>>,
                     Score |-> RInt(80), LineCount |-> 20]
           g == CalculateGlobalResults(<<clean, dirty>>)
       IN  g.TotalScore = RInt(90) /\ g.CleanFiles = 1 /\ g.TotalFiles = 2

\* two files with different scores, one of them clean, have been aggregated
C8_Witness ==
    /\ ReportFinal
    /\ pc = "exited"
    /\ Len(report.Files) = 2
    /\ report.CleanFiles = 1
    /\ report.Files[1].Score # report.Files[2].Score
    /\ report.TotalLines > 2

\* C9: when the path resolves and a collected file cannot be read, the batch
\* still completes without error, and exactly the readable files are reported
C9_SkipUnreadable ==
    ( /\ pc \in {"report", "exited"}
      /\ target # <<>>
      /\ Stat_ok(fs, target)
      /\ \E i \in 1..Len(files) : ~isReadable(files[i]) )
    => /\ ~err
       /\ Len(AllResults) = Cardinality({i \in 1..Len(files) : isReadable(files[i])})

\* the run went through to its report
Completed == target # <<>> /\ ~err

FoundViolations == SeqSum([i \in 1..Len(AllResults) |-> Len(AllResults[i].Violations)])

\* C10: the exit code is 0 exactly when the run completed and found no
\* violation, and 1 otherwise, in every output mode
C10_ExitCode ==
    /\ pc = "exited" => exitCode = (IF Completed /\ FoundViolations = 0 THEN 0 ELSE 1)
    /\ pc # "exited" => exitCode = -1

\* a silent run of two files that found violations in the first file only
C10_Witness ==
    /\ pc = "exited"
    /\ impl = "cmd"
    /\ mode = "silent"
    /\ Completed
    /\ Len(cmdResults) = 2
    /\ Len(cmdResults[1].Violations) > 0
    /\ Len(cmdResults[2].Violations) = 0
    /\ exitCode = 1

\* the content of the file the i-th FileResult comes from
ContentAt(i) == fs[AnalyzedPaths[i]].content

\* C12: the file "int main(void)\n{\n\treturn (0);\n}\n" under a snake_case
\* name is analyzed to no violation and to the score 100
C12_CleanFile ==
    Analyzing =>
        \A i \in 1..Len(AllResults) :
            (AnalyzedPaths[i] = PathOk /\ ContentAt(i) = SampleFiles.main) =>
                /\ AllResults[i].Violations = <<>>
                /\ AllResults[i].Score = RInt(FullScore)

\* the rules that report on the file as a whole, not on a line
FileLevelRules == {"C-O1", "C-O2"}

\* C13: the rules see the content split on its line boundaries: an empty file
\* has 0 lines and no violation on a line, a file of n lines each ended by a
\* newline has exactly n lines
C13_LineSequence ==
    Analyzing =>
        \A i \in 1..Len(AllResults) :
            /\ (ContentAt(i).lines = <<>> /\ ~ContentAt(i).nl) =>
                  /\ AllResults[i].LineCount = 0
                  /\ \A k \in 1..Len(AllResults[i].Violations) :
                        AllResults[i].Violations[k].rule \in FileLevelRules
            /\ (ContentAt(i).lines # <<>> /\ ContentAt(i).nl) =>
                  AllResults[i].LineCount = Len(ContentAt(i).lines)

\* the number of C-L1 violations of vs on line n
LineLengthHits(vs, n) ==
    Cardinality({k \in 1..Len(vs) : vs[k].rule = "C-L1" /\ vs[k].line = n})

\* C14: each line of more than 80 characters gets exactly one C-L1 violation on
\* its number and no other line gets one; the file of a single line of 81
\* characters gets one violation in all: C-L1, major, line 1
C14_LineLength ==
    Analyzing =>
        \A i \in 1..Len(AllResults) :
            /\ \A n \in 1..Len(ContentAt(i).lines) :
                  LineLengthHits(AllResults[i].Violations, n) =
                      (IF Len(AllTexts[ContentAt(i).lines[n]]) > 80 THEN 1 ELSE 0)
            /\ \A k \in 1..Len(AllResults[i].Violations) :
                  AllResults[i].Violations[k].rule = "C-L1" =>
                      AllResults[i].Violations[k].line \in 1..Len(ContentAt(i).lines)
            /\ (AnalyzedPaths[i] = PathOk /\ ContentAt(i) = SampleFiles.wide) =>
                  /\ Len(AllResults[i].Violations) = 1
                  /\ AllResults[i].Violations[1].rule = "C-L1"
                  /\ AllResults[i].Violations[1].severity = "major"
                  /\ AllResults[i].Violations[1].line = 1

\* the severity the rule table of the specification gives to a rule
TableSeverity(code) == IF code \in {"C-L2", "C-C1"} THEN "minor" ELSE "major"

\* C18: every violation carries the severity of its rule: minor for the empty
\* lines rule and the comment format rule, major for the other rules
C18_Severity ==
    \A i \in 1..Len(AllResults) :
        \A k \in 1..Len(AllResults[i].Violations) :
            AllResults[i].Violations[k].severity =
                TableSeverity(AllResults[i].Violations[k].rule)

\* C19: the Filename of a FileResult is the base name of the analyzed path
C19_Basename ==
    Analyzing =>
        \A i \in 1..Len(AllResults) : AllResults[i].Filename = Base(AnalyzedPaths[i])

\* the extractor has gone through the lines of the unit and the rules have run
Checked == pc = "checked"

\* the brace depth behind line k: the "{" less the "}" of the lines 1..k
Depth(ls, k) == SeqSum([j \in 1..k |-> Count(ls[j], "{") - Count(ls[j], "}")])

\* no line leaves more "}" than "{" behind it and the last line leaves as many
Balanced(ls) ==
    /\ \A k \in 1..Len(ls) : Depth(ls, k) >= 0
    /\ Depth(ls, Len(ls)) = 0

\* the lines extractFunctions takes for the signature of a function
Detected(ls) ==
    {i \in 1..Len(ls) : extractFunctions_isSignature(ls, i) /\ extractFunctions_open(ls, i) # NoFunc}

\* C11: on lines of balanced braces extractFunctions returns as many records
\* as it detected signature lines; a function left open at the last line is
\* not among the records, which are those of the functions closed before it
C11_BracketBalance ==
    Checked =>
        /\ Balanced(unit.lines) => Len(ex.functions) = Cardinality(Detected(unit.lines))
        /\ ex.currentFunc # NoFunc =>
              \A k \in 1..Len(ex.functions) :
                  /\ ex.functions[k].StartLine # ex.currentFunc.StartLine
                  /\ ex.functions[k].EndLine < ex.currentFunc.StartLine

\* the lines of a list of violations
Anchors(vs) == [k \in 1..Len(vs) |-> vs[k].line]

\* the line on which the k-th function of a unit made of functions starts
StartOf(ns, k) == 1 + SeqSum(SubSeq(ns, 1, k - 1))

\* the start lines of the functions of more than 25 lines, in file order
LongStarts(ns) ==
    Flatten([k \in 1..Len(ns) |-> IF ns[k] > 25 THEN <<StartOf(ns, k)>> ELSE <<>>])

ScreamingRef(s) ==
    /\ s # <<>>
    /\ \A i \in 1..Len(s) : s[i] \in Upper \cup Digit \cup {"_"}
    /\ s[1] # "_"
    /\ s[Len(s)] # "_"

\* snake_case as the specification defines it
SnakeRef(s) ==
    /\ s # <<>>
    /\ \A i \in 1..Len(s) : s[i] \in Lower \cup Digit \cup {"_"}
    /\ s[1] # "_"
    /\ s[Len(s)] # "_"

\* the unit is the file of a macro and a function whose name is an identifier
NamedUnit ==
    /\ unit.name # <<>>
    /\ \A i \in 1..Len(unit.name) : unit.name[i] \in Word
    /\ unit.lines = NameLines(unit.name)

\* C16: isScreamingSnakeCase is true of the non-empty strings of uppercase
\* letters, digits and underscores that neither start nor end with an
\* underscore, and of no other; the macro naming rule reports "#define NAME"
\* on its line exactly when NAME fails the test
C16_MacroNaming ==
    Checked =>
        /\ checks.screaming.main = ScreamingRef(unit.name)
        /\ checks.screaming.pkg = ScreamingRef(unit.name)
        /\ NamedUnit =>
              /\ Anchors(checks.main.F2) = (IF ScreamingRef(unit.name) THEN <<>> ELSE <<1>>)
              /\ Anchors(checks.pkg.F2) = (IF ScreamingRef(unit.name) THEN <<>> ELSE <<1>>)

\* C17: isSnakeCase is true of the non-empty strings of lowercase letters,
\* digits and underscores that neither start nor end with an underscore, and of
\* no other; the filename rule reports a file exactly when its base name
\* without extension fails the test, the function naming rule a function
\* exactly when its name fails it and is not main
C17_SnakeCase ==
    Checked =>
        /\ checks.snake.main = SnakeRef(unit.name)
        /\ checks.snake.pkg = SnakeRef(unit.name)
        /\ Len(checks.main.O1) = (IF SnakeRef(unit.name) THEN 0 ELSE 1)
        /\ Len(checks.pkg.O1) = (IF SnakeRef(unit.name) THEN 0 ELSE 1)
        /\ NamedUnit =>
              /\ Anchors(checks.main.F1) =
                    (IF SnakeRef(unit.name) \/ unit.name = KwMain THEN <<>> ELSE <<2>>)
              /\ Anchors(checks.pkg.F1) =
                    (IF SnakeRef(unit.name) \/ unit.name = KwMain THEN <<>> ELSE <<2>>)

\* C20: while a function is open no line replaces its record: the open record
\* stays as it is until its closing brace, and the record then appended is the
\* open record with its end line
C20_OpenKept ==
    [][ ex.currentFunc # NoFunc =>
          /\ ex'.currentFunc # NoFunc => ex'.currentFunc = ex.currentFunc
          /\ Len(ex'.functions) > Len(ex.functions) =>
                ex'.functions[Len(ex'.functions)] = [ex.currentFunc EXCEPT !.EndLine = ex.i]
      ]_vars

\* C21: a function whose parameter list is empty or void is recorded with
\* no parameter, any other with one parameter more than the commas between
\* its parentheses
C21_ParamCount ==
    Checked =>
        \A k \in 1..Len(ParamTexts) :
            unit.lines = ParamLines(ParamTexts[k]) =>
                ex.functions =
                    <<[Name |-> <<"f">>, StartLine |-> 1, EndLine |-> 2,
                       ParamCount |-> IF ParamTexts[k] \in {<<>>, KwVoid} THEN 0
                                      ELSE Count(ParamTexts[k], ",") + 1]>>

\* the lines the signature test of extractFunctions accepts, those of a
\* function main left out
Signatures(ls) ==
    {i \in 1..Len(ls) :
        /\ extractFunctions_isSignature(ls, i)
        /\ extractFunctions_open(ls, i) # NoFunc => extractFunctions_open(ls, i).Name # KwMain}

\* C22: the function count rule counts the lines the signature test of the
\* extractor accepts, brace on the line or on the next one, main left out,
\* and reports C-O2 once when they are more than 3, not at all otherwise
C22_FunctionCount ==
    Checked =>
        /\ Len(checks.main.O2) = (IF Cardinality(Signatures(unit.lines)) > 3 THEN 1 ELSE 0)
        /\ Len(checks.pkg.O2) = (IF Cardinality(Signatures(unit.lines)) > 3 THEN 1 ELSE 0)
        /\ \A k \in 1..Len(checks.main.O2) : checks.main.O2[k].rule = "C-O2"
        /\ \A k \in 1..Len(checks.pkg.O2) : checks.pkg.O2[k].rule = "C-O2"

\* C23: the violations of the filename rule and of the function count rule
\* are on line 0, those of every other rule on a line from 1 on
C23_FileLevel ==
    /\ Analyzing =>
          \A i \in 1..Len(AllResults) :
              \A k \in 1..Len(AllResults[i].Violations) :
                  IF AllResults[i].Violations[k].rule \in FileLevelRules
                  THEN AllResults[i].Violations[k].line = 0
                  ELSE AllResults[i].Violations[k].line >= 1
    /\ Checked =>
          /\ \A k \in 1..Len(checks.main.O1) : checks.main.O1[k].line = 0
          /\ \A k \in 1..Len(checks.main.O2) : checks.main.O2[k].line = 0
          /\ \A k \in 1..Len(checks.pkg.O1) : checks.pkg.O1[k].line = 0
          /\ \A k \in 1..Len(checks.pkg.O2) : checks.pkg.O2[k].line = 0

\* C29: the line of every violation of a FileResult is between 0 and the line
\* count of the FileResult
C29_LineInFile ==
    Analyzing =>
        \A i \in 1..Len(AllResults) :
            \A k \in 1..Len(AllResults[i].Violations) :
                /\ AllResults[i].Violations[k].line >= 0
                /\ AllResults[i].Violations[k].line <= AllResults[i].LineCount

\* C30: the score of a FileResult is 100 exactly when it has no violation
C30_FullScore ==
    Analyzing =>
        \A i \in 1..Len(AllResults) :
            (AllResults[i].Score = RInt(FullScore)) <=> (AllResults[i].Violations = <<>>)

\* C28: the records of extractFunctions are in source order and their ranges
\* are disjoint: each starts at line 1 or later, ends on its start line or
\* later and within the file, and starts behind the end of the record before
C28_DisjointRanges ==
    \A k \in 1..Len(ex.functions) :
        /\ 1 <= ex.functions[k].StartLine
        /\ ex.functions[k].StartLine <= ex.functions[k].EndLine
        /\ ex.functions[k].EndLine <= Len(unit.lines)
        /\ k > 1 => ex.functions[k].StartLine > ex.functions[k - 1].EndLine

\* two functions have been recorded, the second on the line behind the end
\* of the first
C28_Witness ==
    /\ Checked
    /\ Len(ex.functions) = 2
    /\ ex.functions[1].StartLine < ex.functions[1].EndLine
    /\ ex.functions[2].StartLine = ex.functions[1].EndLine + 1

\* the line is empty once its white space is trimmed
Blank(t) == \A j \in 1..Len(t) : t[j] \in Space

\* the violations the empty lines rule owes line n of ls: one as a blank first
\* line, one as a blank last line, one as a blank line behind a blank line
BlankOwed(ls, n) ==
    (IF n = 1 /\ Blank(ls[n]) THEN 1 ELSE 0)
    + (IF n = Len(ls) /\ Blank(ls[n]) THEN 1 ELSE 0)
    + (IF n > 1 /\ Blank(ls[n - 1]) /\ Blank(ls[n]) THEN 1 ELSE 0)

\* the number of violations of vs on line n
HitsOn(vs, n) == Cardinality({k \in 1..Len(vs) : vs[k].line = n})

\* C27: the empty lines rule reports line 1 once when the first line is blank,
\* the last line once when the last line is blank and line i + 1 once for each
\* i whose lines i and i + 1 are both blank, and reports nothing else: a file
\* with neither has no C-L2 violation
C27_EmptyLines ==
    Checked =>
        /\ \A n \in 1..Len(unit.lines) :
              /\ HitsOn(checks.main.L2, n) = BlankOwed(unit.lines, n)
              /\ HitsOn(checks.pkg.L2, n) = BlankOwed(unit.lines, n)
        /\ \A k \in 1..Len(checks.main.L2) :
              checks.main.L2[k].rule = "C-L2" /\ checks.main.L2[k].line \in 1..Len(unit.lines)
        /\ \A k \in 1..Len(checks.pkg.L2) :
              checks.pkg.L2[k].rule = "C-L2" /\ checks.pkg.L2[k].line \in 1..Len(unit.lines)

\* the lines above the signature are a block comment that ends on the line
\* directly above it
Commented(head) ==
    /\ head # <<>>
    /\ HasPrefix(head[1], SlashStar)
    /\ HasSuffix(head[Len(head)], <<"*", "/">>)

\* C26: the function comment rule reports a function that is not main once,
\* on its signature, exactly when no block comment stands directly above the
\* signature; a function under a block comment as in the clean example is
\* not reported, and main never is
C26_FunctionComment ==
    Checked =>
        \A h \in 1..Len(CommentHeads) : \A j \in 1..Len(ShortFuncs) :
            unit.lines = CommentHeads[h] \o ShortFuncs[j] =>
                /\ Anchors(checks.main.C2) =
                      (IF j = 3 \/ Commented(CommentHeads[h]) THEN <<>>
                       ELSE <<Len(CommentHeads[h]) + 1>>)
                /\ Anchors(checks.pkg.C2) =
                      (IF j = 3 \/ Commented(CommentHeads[h]) THEN <<>>
                       ELSE <<Len(CommentHeads[h]) + 1>>)

\* the lines of the declarations of body b that stand behind a statement of b,
\* b being the body of a function whose signature is on line off + 1
LateDecls(b, off) ==
    Flatten([p \in 1..Len(b) |->
                IF b[p] = 1 /\ (\E q \in 1..(p - 1) : b[q] = 2)
                THEN <<off + 2 + p>> ELSE <<>>])

\* C24: in a function body the declaration placement rule reports a
\* declaration exactly when a statement of the same body stands above it,
\* braces, blank lines and comments not counting as statements; the
\* statements of a function do not count for the function behind it
C24_DeclarationPlacement ==
    Checked =>
        \A b1 \in Bodies :
            /\ unit.lines = BodyFunc(b1) =>
                  /\ Anchors(checks.main.V1) = LateDecls(b1, 0)
                  /\ Anchors(checks.pkg.V1) = LateDecls(b1, 0)
            /\ \A b2 \in Bodies :
                  unit.lines = BodyFunc(b1) \o BodyFunc(b2) =>
                      /\ Anchors(checks.main.V1) =
                            LateDecls(b1, 0) \o LateDecls(b2, Len(b1) + 3)
                      /\ Anchors(checks.pkg.V1) =
                            LateDecls(b1, 0) \o LateDecls(b2, Len(b1) + 3)

\* the lines of the globals of GlobalLines(pre, k, post) that are not const
GlobalOwed(pre, k, post) ==
    (IF pre # 0 /\ ~Contains(GlobalTexts[pre], KwConst) THEN <<1>> ELSE <<>>)
    \o (IF post # 0 /\ ~Contains(GlobalTexts[post], KwConst)
        THEN <<Len(GlobalLines(pre, k, 0)) + 1>> ELSE <<>>)

\* C25: the global variable rule reports a declaration or an assignment of a
\* primitive type exactly when it stands outside every function, at brace
\* depth 0, and does not hold the word const; a declaration in a function
\* body and a const declaration are not reported
C25_GlobalVariables ==
    Checked =>
        \A pre \in 0..Len(GlobalTexts) : \A k \in 1..Len(GlobalFuncs) :
            \A post \in 0..Len(GlobalTexts) :
                unit.lines = GlobalLines(pre, k, post) =>
                    /\ Anchors(checks.main.G1) = GlobalOwed(pre, k, post)
                    /\ Anchors(checks.pkg.G1) = GlobalOwed(pre, k, post)

====
